---- MODULE Spec2Model ----
(***************************************************************************)
(* Conversion opcode circuit of the event table (etable_v2):               *)
(* src/circuits/etable_v2/op_configure/op_conversion.rs.                   *)
(*                                                                         *)
(* Two sides of the module are modelled over one row of cells:             *)
(*   Spec         witness assignment, ConversionConfig::assign, run on one *)
(*                execution-step record;                                   *)
(*   SpecCircuit  the gates registered by ConversionConfigBuilder::        *)
(*                configure, evaluated on rows an arbitrary prover fills.  *)
(*                                                                         *)
(* Word sizes are scaled: a u16 limb has LimbBits bits, a u32 two limbs, a *)
(* u64 four limbs, and the field is the prime field of FieldModulus, which *)
(* exceeds every u64 sum the gates form, as the circuit's field does.      *)
(***************************************************************************)
EXTENDS Integers, Sequences, FiniteSets

VARIABLES entry, status, cells, written

vars == <<entry, status, cells, written>>

(***************************************************************************)
(* Word sizes.                                                             *)
(***************************************************************************)
LimbBits == 2

Pow2(n) == 2 ^ n

U16Bits == LimbBits
U32Bits == 2 * LimbBits
U64Bits == 4 * LimbBits

U16Values == 0 .. (Pow2(U16Bits) - 1)
U32Values == 0 .. (Pow2(U32Bits) - 1)
U64Values == 0 .. (Pow2(U64Bits) - 1)
I32Values == (0 - Pow2(U32Bits - 1)) .. (Pow2(U32Bits - 1) - 1)
I64Values == (0 - Pow2(U64Bits - 1)) .. (Pow2(U64Bits - 1) - 1)

U32_MAX == Pow2(U32Bits) - 1

\* Rust `as` casts between integer types of the scaled widths.
AsU64(x) == x % Pow2(U64Bits)
AsU32(x) == x % Pow2(U32Bits)
AsI32(x) == IF AsU32(x) >= Pow2(U32Bits - 1) THEN AsU32(x) - Pow2(U32Bits) ELSE AsU32(x)
AsI64(x) == IF AsU64(x) >= Pow2(U64Bits - 1) THEN AsU64(x) - Pow2(U64Bits) ELSE AsU64(x)

Shl(x, n) == x * Pow2(n)
Shr(x, n) == x \div Pow2(n)
\* x & (2^n - 1)
AndMask(x, n) == x % Pow2(n)

(***************************************************************************)
(* The field F: FieldExt.                                                  *)
(***************************************************************************)
FieldModulus == 32749

FieldValues == 0 .. (FieldModulus - 1)

constant_from(c) == c % FieldModulus
FAdd(a, b) == (a + b) % FieldModulus
FSub(a, b) == (a - b) % FieldModulus
FMul(a, b) == (a * b) % FieldModulus

F_one == constant_from(1)

(***************************************************************************)
(* specs::mtable::VarType and specs::itable opcode encoding.               *)
(***************************************************************************)
VarType_I64 == 0
VarType_I32 == 1

ConversionOp == {"I32WrapI64", "I64ExtendI32s", "I64ExtendI32u"}

ConversionOpIndex(op) ==
    CASE op = "I32WrapI64" -> 0
      [] op = "I64ExtendI32s" -> 1
      [] op = "I64ExtendI32u" -> 2

OpcodeClass_Conversion == 5
OPCODE_CLASS_SHIFT == 6
OPCODE_ARG0_SHIFT == 3

encode_conversion(op) ==
    FAdd(constant_from(Shl(OpcodeClass_Conversion, OPCODE_CLASS_SHIFT)),
         constant_from(Shl(ConversionOpIndex(op), OPCODE_ARG0_SHIFT)))

(***************************************************************************)
(* Cells of ConversionConfig.                                              *)
(***************************************************************************)
LimbIndex == 0 .. 3

OwnedCells ==
    {"value", "value_is_i32", "res", "res_is_i32",
     "flag_bit", "flag_u16_rem", "flag_u16_rem_diff",
     "is_i32_wrap_i64", "is_i64_extend_i32_u", "is_i64_extend_i32_s",
     "memory_table_lookup_stack_read", "memory_table_lookup_stack_write"}

ModeCells == {"is_i32_wrap_i64", "is_i64_extend_i32_u", "is_i64_extend_i32_s"}

\* AllocatedU64Cell: the u64 cell and its four u16 limbs, least significant first.
U64CellSum(limbs) ==
    limbs[0] + Shl(limbs[1], U16Bits) + Shl(limbs[2], 2 * U16Bits) + Shl(limbs[3], 3 * U16Bits)

U64CellOf(v) ==
    [u64_cell |-> constant_from(v),
     u16_cells_le |-> [i \in LimbIndex |-> AndMask(Shr(v, i * U16Bits), U16Bits)]]

\* A row before any assignment: every advice cell of the region holds zero.
BlankRow ==
    [value |-> U64CellOf(0),
     value_is_i32 |-> 0,
     res |-> U64CellOf(0),
     res_is_i32 |-> 0,
     flag_bit |-> 0,
     flag_u16_rem |-> 0,
     flag_u16_rem_diff |-> 0,
     is_i32_wrap_i64 |-> 0,
     is_i64_extend_i32_u |-> 0,
     is_i64_extend_i32_s |-> 0,
     memory_table_lookup_stack_read |-> 0,
     memory_table_lookup_stack_write |-> 0]

(***************************************************************************)
(* Gates registered by ConversionConfigBuilder::configure.  Each is the    *)
(* vec! of expressions of its closure, evaluated on a row.                 *)
(***************************************************************************)
\* A pick-one gate that leaves one mode bit out of the sum.
op_conversion_pick_one_two_modes(row) ==
    << FSub(FAdd(row.is_i32_wrap_i64, row.is_i64_extend_i32_u), constant_from(1)) >>

op_conversion_pick_one(row) ==
    << FSub(FAdd(FAdd(row.is_i32_wrap_i64, row.is_i64_extend_i32_u), row.is_i64_extend_i32_s),
            constant_from(1)) >>

op_conversion_type_matches_op(row) ==
    << FMul(row.is_i32_wrap_i64, row.value_is_i32),
       FMul(row.is_i32_wrap_i64, FSub(row.res_is_i32, constant_from(1))),
       FMul(FAdd(row.is_i64_extend_i32_s, row.is_i64_extend_i32_u),
            FSub(row.value_is_i32, constant_from(1))),
       FMul(FAdd(row.is_i64_extend_i32_s, row.is_i64_extend_i32_u), row.res_is_i32) >>

op_conversion_i32_wrap_i64(row) ==
    << FMul(row.is_i32_wrap_i64,
            FSub(FAdd(FMul(row.value.u16_cells_le[0], constant_from(Shl(1, U16Bits))),
                      row.value.u16_cells_le[1]),
                 row.res.u64_cell)) >>

op_conversion_flag_bit(row) ==
    LET flag_u16 == row.value.u16_cells_le[1]
    IN  << FSub(FAdd(FMul(row.flag_bit, constant_from(Shl(1, U16Bits - 1))), row.flag_u16_rem),
                flag_u16),
           FSub(FSub(row.flag_u16_rem, row.flag_u16_rem_diff),
                constant_from(Shl(1, U16Bits - 1) - 1)) >>

i64_extend_i32_u(row) ==
    << FMul(row.is_i64_extend_i32_u, FSub(row.res.u64_cell, row.value.u64_cell)) >>

\* A signed-extend gate whose pad constant misses the shift by 32.
i64_extend_i32_s_unshifted(row) ==
    LET pad == FMul(row.flag_bit, constant_from(U32_MAX))
    IN  << FMul(row.is_i64_extend_i32_s,
                FSub(FAdd(pad, row.value.u64_cell), row.res.u64_cell)) >>

i64_extend_i32_s(row) ==
    LET pad == FMul(row.flag_bit, constant_from(Shl(U32_MAX, U32Bits)))
    IN  << FMul(row.is_i64_extend_i32_s,
                FSub(FAdd(pad, row.value.u64_cell), row.res.u64_cell)) >>

Vanishes(exprs) == \A i \in 1 .. Len(exprs) : exprs[i] = 0

\* An opcode expression with the two extend encodings exchanged.
opcode_swapped(row) ==
    FAdd(FAdd(FMul(row.is_i32_wrap_i64, encode_conversion("I32WrapI64")),
              FMul(row.is_i64_extend_i32_s, encode_conversion("I64ExtendI32u"))),
         FMul(row.is_i64_extend_i32_u, encode_conversion("I64ExtendI32s")))

\* ConversionConfig::opcode
opcode(row) ==
    FAdd(FAdd(FMul(row.is_i32_wrap_i64, encode_conversion("I32WrapI64")),
              FMul(row.is_i64_extend_i32_s, encode_conversion("I64ExtendI32s"))),
         FMul(row.is_i64_extend_i32_u, encode_conversion("I64ExtendI32u")))

(***************************************************************************)
(* Execution-step records (specs::step::StepInfo) handed to assign.        *)
(* The trace producer fills result by the VM's reference semantics.        *)
(***************************************************************************)
vm_i32_wrap_i64(value) == AsI32(value)

vm_i64_extend_i32(value, sign) == IF sign THEN value ELSE AsU32(value)

OtherStepInfo == {"Br", "Drop", "I32Const", "Return"}

I32WrapI64Entries ==
    {[tag |-> "I32WrapI64", value |-> v, result |-> vm_i32_wrap_i64(v), sign |-> FALSE] :
        v \in I64Values}

I64ExtendI32Entries ==
    {[tag |-> "I64ExtendI32", value |-> v, result |-> vm_i64_extend_i32(v, s), sign |-> s] :
        v \in I32Values, s \in BOOLEAN}

OtherEntries ==
    {[tag |-> t, value |-> 0, result |-> 0, sign |-> FALSE] : t \in OtherStepInfo}

Entries == I32WrapI64Entries \cup I64ExtendI32Entries \cup OtherEntries

NoEntry == [tag |-> "none", value |-> 0, result |-> 0, sign |-> FALSE]

(***************************************************************************)
(* ConversionConfig::assign.                                               *)
(***************************************************************************)
\* The two family arms of the match on entry.eentry.step_info.
assign_match_I32WrapI64(e) ==
    [mode |-> "is_i32_wrap_i64",
     value |-> AsU64(e.value),
     value_type |-> VarType_I64,
     result |-> AsU32(e.result),
     result_type |-> VarType_I32]

assign_match_I64ExtendI32(e) ==
    [mode |-> IF e.sign THEN "is_i64_extend_i32_s" ELSE "is_i64_extend_i32_u",
     value |-> AsU32(e.value),
     value_type |-> VarType_I32,
     result |-> AsU64(e.result),
     result_type |-> VarType_I64]

\* flag_u16 taken from the u64 operand without the cast to u32.
assign_flag_u16_no_cast(value) == Shr(value, U16Bits)

assign_flag_u16(value) == Shr(AsU32(value), U16Bits)

assign_flag_bit(value) == Shr(assign_flag_u16(value), U16Bits - 1)

assign_flag_u16_rem(value) == AndMask(assign_flag_u16(value), U16Bits - 1)

assign_flag_u16_rem_diff(value) == (Pow2(U16Bits - 1) - 1) - assign_flag_u16_rem(value)

\* The cell writes of assign, given the tuple the match produced.
assign_cells(row, m) ==
    [row EXCEPT
        ![m.mode] = F_one,
        !.flag_bit = constant_from(assign_flag_bit(m.value)),
        !.flag_u16_rem = constant_from(assign_flag_u16_rem(m.value)),
        !.flag_u16_rem_diff = constant_from(assign_flag_u16_rem_diff(m.value)),
        !.value = U64CellOf(m.value),
        !.res = U64CellOf(m.result),
        !.value_is_i32 = constant_from(m.value_type),
        !.res_is_i32 = constant_from(m.result_type)]

assign_written(m) ==
    {m.mode, "flag_bit", "flag_u16_rem", "flag_u16_rem_diff",
     "value", "res", "value_is_i32", "res_is_i32"}

AssignI32WrapI64 ==
    /\ status = "ready"
    /\ entry.tag = "I32WrapI64"
    /\ cells' = assign_cells(cells, assign_match_I32WrapI64(entry))
    /\ written' = written \cup assign_written(assign_match_I32WrapI64(entry))
    /\ status' = "ok"
    /\ UNCHANGED entry

AssignI64ExtendI32 ==
    /\ status = "ready"
    /\ entry.tag = "I64ExtendI32"
    /\ cells' = assign_cells(cells, assign_match_I64ExtendI32(entry))
    /\ written' = written \cup assign_written(assign_match_I64ExtendI32(entry))
    /\ status' = "ok"
    /\ UNCHANGED entry

\* A foreign record skipped as if the row had been assigned.
AssignUnreachable_skip ==
    /\ status = "ready"
    /\ entry.tag \notin {"I32WrapI64", "I64ExtendI32"}
    /\ status' = "ok"
    /\ UNCHANGED <<entry, cells, written>>

\* The `_ => unreachable!()` arm: the panic precedes every cell write.
AssignUnreachable ==
    /\ status = "ready"
    /\ entry.tag \notin {"I32WrapI64", "I64ExtendI32"}
    /\ status' = "panicked"
    /\ UNCHANGED <<entry, cells, written>>

Init ==
    /\ entry \in Entries
    /\ status = "ready"
    /\ cells = BlankRow
    /\ written = {}

Next ==
    \/ AssignI32WrapI64
    \/ AssignI64ExtendI32
    \/ AssignUnreachable

Spec == Init /\ [][Next]_vars

(***************************************************************************)
(* The circuit side: a prover fills the cells of one row, each within the  *)
(* range its cell type enforces, and the row is accepted when every gate   *)
(* and both memory-table lookups hold.  A gate is evaluated as soon as the *)
(* cells it reads are filled.                                              *)
(***************************************************************************)
BitValues == {0, 1}

CommonRangeValues == U16Values

\* Memory-table lookups: the looked-up value is a real access of the tagged type.
stack_read_lookup(row) ==
    row.value_is_i32 = 1 => row.value.u64_cell < Pow2(U32Bits)

stack_write_lookup(row) ==
    row.res_is_i32 = 1 => row.res.u64_cell < Pow2(U32Bits)

U64CellOfLimbs(limbs) ==
    [u64_cell |-> constant_from(U64CellSum(limbs)), u16_cells_le |-> limbs]

ProverModes ==
    /\ status = "blank"
    /\ \E w \in BitValues, u \in BitValues, s \in BitValues,
          vt \in BitValues, rt \in BitValues :
          cells' = [cells EXCEPT !.is_i32_wrap_i64 = w,
                                 !.is_i64_extend_i32_u = u,
                                 !.is_i64_extend_i32_s = s,
                                 !.value_is_i32 = vt,
                                 !.res_is_i32 = rt]
    /\ written' = written \cup ModeCells \cup {"value_is_i32", "res_is_i32"}
    /\ status' = IF /\ Vanishes(op_conversion_pick_one(cells'))
                    /\ Vanishes(op_conversion_type_matches_op(cells'))
                 THEN "modes" ELSE "rejected"
    /\ UNCHANGED entry

ProverOperand ==
    /\ status = "modes"
    /\ \E limbs \in [LimbIndex -> U16Values] :
          cells' = [cells EXCEPT !.value = U64CellOfLimbs(limbs)]
    /\ written' = written \cup {"value", "memory_table_lookup_stack_read"}
    /\ status' = IF stack_read_lookup(cells') THEN "operand" ELSE "rejected"
    /\ UNCHANGED entry

ProverFlag ==
    /\ status = "operand"
    /\ \E fb \in BitValues, rem \in CommonRangeValues, diff \in CommonRangeValues :
          cells' = [cells EXCEPT !.flag_bit = fb,
                                 !.flag_u16_rem = rem,
                                 !.flag_u16_rem_diff = diff]
    /\ written' = written \cup {"flag_bit", "flag_u16_rem", "flag_u16_rem_diff"}
    /\ status' = IF Vanishes(op_conversion_flag_bit(cells')) THEN "flag" ELSE "rejected"
    /\ UNCHANGED entry

\* Results the prover tries: low limbs taken from the operand's low limbs in
\* either order, high limbs zero, all ones or the operand's own.
ResultLimbs(row) ==
    LET v == row.value.u16_cells_le
        low == {v[0], v[1]}
        high(i) == {0, Pow2(U16Bits) - 1, v[i]}
    IN  {[i \in LimbIndex |-> CASE i = 0 -> a [] i = 1 -> b [] i = 2 -> c [] i = 3 -> d] :
            a \in low, b \in low, c \in high(2), d \in high(3)}

ProverResult ==
    /\ status = "flag"
    /\ \E limbs \in ResultLimbs(cells) :
          cells' = [cells EXCEPT !.res = U64CellOfLimbs(limbs)]
    /\ written' = written \cup {"res", "memory_table_lookup_stack_write"}
    /\ status' = IF /\ Vanishes(op_conversion_i32_wrap_i64(cells'))
                    /\ Vanishes(i64_extend_i32_u(cells'))
                    /\ Vanishes(i64_extend_i32_s(cells'))
                    /\ stack_write_lookup(cells')
                 THEN "accepted" ELSE "rejected"
    /\ UNCHANGED entry

InitCircuit ==
    /\ entry = NoEntry
    /\ status = "blank"
    /\ cells = BlankRow
    /\ written = {}

NextCircuit ==
    \/ ProverModes
    \/ ProverOperand
    \/ ProverFlag
    \/ ProverResult

SpecCircuit == InitCircuit /\ [][NextCircuit]_vars

(***************************************************************************)
(* Properties.                                                             *)
(***************************************************************************)
FamilyTags == {"I32WrapI64", "I64ExtendI32"}

AllGatesVanish(row) ==
    /\ Vanishes(op_conversion_pick_one(row))
    /\ Vanishes(op_conversion_type_matches_op(row))
    /\ Vanishes(op_conversion_i32_wrap_i64(row))
    /\ Vanishes(op_conversion_flag_bit(row))
    /\ Vanishes(i64_extend_i32_u(row))
    /\ Vanishes(i64_extend_i32_s(row))

ActiveModes(row) == {c \in ModeCells : row[c] = 1}

\* The operand's low 32 bits as the record holds them.
EntryLow32(e) == AsU32(e.value)

FlagCells(row) == <<row.flag_bit, row.flag_u16_rem, row.flag_u16_rem_diff>>

\* The row assign writes for a family record.
AssignedRow(e) ==
    IF e.tag = "I32WrapI64"
    THEN assign_cells(BlankRow, assign_match_I32WrapI64(e))
    ELSE assign_cells(BlankRow, assign_match_I64ExtendI32(e))

\* The conversion variant a family record executed.
EntryOp(e) ==
    IF e.tag = "I32WrapI64" THEN "I32WrapI64"
    ELSE IF e.sign THEN "I64ExtendI32s" ELSE "I64ExtendI32u"

ModeCellOf(op) ==
    CASE op = "I32WrapI64" -> "is_i32_wrap_i64"
      [] op = "I64ExtendI32s" -> "is_i64_extend_i32_s"
      [] op = "I64ExtendI32u" -> "is_i64_extend_i32_u"

OneHotRow(op) == [BlankRow EXCEPT ![ModeCellOf(op)] = 1]

\* C1: after assign on any record of the family, every gate registered by
\* configure evaluates to zero on the written cells.
C1_Completeness ==
    status = "ok" => AllGatesVanish(cells)

\* C2: every accepted row agrees with the VM: result = operand mod 2^32 for
\* wrap, result = operand with zero upper 32 bits for unsigned extend, result =
\* the sign extension of the 32-bit operand for signed extend.
C2_Soundness ==
    status = "accepted" =>
        LET operand == cells.value.u64_cell
            result == cells.res.u64_cell
        IN  /\ cells.is_i32_wrap_i64 = 1 => result = operand % Pow2(U32Bits)
            /\ cells.is_i64_extend_i32_u = 1 =>
                  /\ result = operand
                  /\ Shr(result, U32Bits) = 0
            /\ cells.is_i64_extend_i32_s = 1 => result = AsU64(AsI32(operand))

\* C3: with the three mode cells bits, the pick-one gate vanishes exactly when
\* one mode bit is 1 and the other two are 0.
C3_OneHot ==
    ModeCells \subseteq written =>
        (Vanishes(op_conversion_pick_one(cells)) <=> Cardinality(ActiveModes(cells)) = 1)

C3_Witness ==
    /\ status = "modes"
    /\ cells.is_i64_extend_i32_u = 1
    /\ cells.is_i32_wrap_i64 = 0
    /\ cells.is_i64_extend_i32_s = 0

\* C4: assign writes flag_bit = bit 31 of the operand's low 32 bits v,
\* flag_u16_rem = bits 16..30 of v and flag_u16_rem_diff with rem + diff =
\* 2^15 - 1, and a record differing only in mode or sign gets the same values.
C4_SignExtraction ==
    status = "ok" =>
        LET v == EntryLow32(entry)
        IN  /\ cells.flag_bit = Shr(v, U32Bits - 1) % 2
            /\ cells.flag_u16_rem = Shr(v, U16Bits) % Pow2(U16Bits - 1)
            /\ cells.flag_u16_rem + cells.flag_u16_rem_diff = Pow2(U16Bits - 1) - 1
            /\ \A t \in FamilyTags, s \in BOOLEAN :
                  (t = "I64ExtendI32" => entry.value \in I32Values) =>
                      FlagCells(AssignedRow([entry EXCEPT !.tag = t, !.sign = s]))
                          = FlagCells(cells)

C4_Witness ==
    /\ status = "ok"
    /\ entry.tag = "I32WrapI64"
    /\ entry.value >= Pow2(U32Bits)
    /\ cells.flag_bit = 1
    /\ cells.flag_u16_rem > 0

\* C5: assign on a record of another family panics: it never returns success
\* and no cell of the row has been written.
C5_FatalAbort ==
    (entry \in OtherEntries /\ status # "ready") =>
        /\ status = "panicked"
        /\ written = {}
        /\ cells = BlankRow

C5_Witness ==
    /\ entry.tag = "Drop"
    /\ status = "panicked"

\* C6: on every one-hot setting opcode() is encode_conversion of the active
\* variant, and after assign the one mode bit written is that of the record's
\* variant (sign = true the signed one), which opcode() then encodes.
C6_OpcodeIdentity ==
    /\ \A op \in ConversionOp : opcode(OneHotRow(op)) = encode_conversion(op)
    /\ status = "ok" =>
          /\ written \cap ModeCells = {ModeCellOf(EntryOp(entry))}
          /\ cells[ModeCellOf(EntryOp(entry))] = 1
          /\ opcode(cells) = encode_conversion(EntryOp(entry))

C6_Witness ==
    /\ status = "ok"
    /\ entry.tag = "I64ExtendI32"
    /\ entry.sign
    /\ cells.is_i64_extend_i32_s = 1
    /\ opcode(cells) = encode_conversion("I64ExtendI32s")

\* C7: after a successful assign every cell the configuration owns has been
\* written, the matching mode bit to 1 and the other two to 0.
C7_AllCellsWritten ==
    status = "ok" =>
        /\ written = OwnedCells
        /\ ActiveModes(cells) = {ModeCellOf(EntryOp(entry))}

\* C8: with the wrap bit 1 the wrap gate vanishes exactly when
\* result = limb0 + 2^16 * limb1 (operand mod 2^32); with the wrap bit 0 it
\* vanishes for every result.
C8_WrapGate ==
    ("value" \in written /\ "res" \notin written /\ status # "rejected") =>
        \A r \in U64Values :
            LET row == [cells EXCEPT !.res = U64CellOf(r)]
                limb == cells.value.u16_cells_le
            IN  IF cells.is_i32_wrap_i64 = 1
                THEN Vanishes(op_conversion_i32_wrap_i64(row))
                        <=> r = limb[0] + Shl(limb[1], U16Bits)
                ELSE Vanishes(op_conversion_i32_wrap_i64(row))

\* C9: the flag-bit gate vanishes exactly when flag_bit * 2^15 + flag_u16_rem
\* is the operand's second limb and flag_u16_rem + flag_u16_rem_diff = 2^15 - 1,
\* which makes flag_bit bit 15 of that limb.
C9_FlagBitGate ==
    {"value", "flag_bit", "flag_u16_rem", "flag_u16_rem_diff"} \subseteq written =>
        LET flag_u16 == cells.value.u16_cells_le[1]
        IN  /\ Vanishes(op_conversion_flag_bit(cells)) <=>
                  /\ Shl(cells.flag_bit, U16Bits - 1) + cells.flag_u16_rem = flag_u16
                  /\ cells.flag_u16_rem + cells.flag_u16_rem_diff = Pow2(U16Bits - 1) - 1
            /\ Vanishes(op_conversion_flag_bit(cells)) =>
                  cells.flag_bit = Shr(flag_u16, U16Bits - 1)

\* C10: on a row whose operand has passed the read lookup (a 32-bit operand
\* in the extend modes): with the signed-extend bit 1 the signed gate vanishes
\* exactly when result = operand + flag_bit * 0xFFFFFFFF00000000, the upper 32
\* bits of result being all ones for flag_bit 1 and all zero for flag_bit 0;
\* with the unsigned-extend bit 1 the unsigned gate vanishes exactly when
\* result = operand, whatever flag_bit is.
C10_ExtendGates ==
    (status = "operand" /\ cells.is_i32_wrap_i64 = 0) =>
        \A fb \in BitValues, r \in U64Values :
            LET row == [cells EXCEPT !.flag_bit = fb, !.res = U64CellOf(r)]
                operand == cells.value.u64_cell
            IN  /\ cells.is_i64_extend_i32_s = 1 =>
                      /\ Vanishes(i64_extend_i32_s(row))
                            <=> r = operand + fb * Shl(U32_MAX, U32Bits)
                      /\ Vanishes(i64_extend_i32_s(row)) =>
                            /\ Shr(r, U32Bits) = fb * U32_MAX
                            /\ r % Pow2(U32Bits) = operand
                /\ cells.is_i64_extend_i32_u = 1 =>
                      (Vanishes(i64_extend_i32_u(row)) <=> r = operand)

C10_Witness ==
    /\ status = "accepted"
    /\ cells.is_i64_extend_i32_s = 1
    /\ cells.flag_bit = 1
    /\ cells.value.u64_cell = U32_MAX
    /\ cells.res.u64_cell = Pow2(U64Bits) - 1

====
